---- MODULE Spec2Model ----
(***************************************************************************)
(* The CodePractice component of src/theme.config.jsx: the snippet         *)
(* evaluator evaluateCode and its caller handleRunCode, on the JavaScript  *)
(* event loop (one macrotask at a time, microtasks drained in between).    *)
(*                                                                         *)
(* Text is a sequence of atoms (short strings); "" is << >>.  A snippet is *)
(* its source text seen as a sequence of statements, so that the textual   *)
(* rewrite of line 59 acts on every occurrence in it, string literals      *)
(* included.                                                               *)
(***************************************************************************)
EXTENDS Integers, Sequences, FiniteSets, TLC

VARIABLES code, output, runs, globalN, unhandled

vars == <<code, output, runs, globalN, unhandled>>

\* Number of Run clicks explored.
MaxRuns == 2

-----------------------------------------------------------------------------
(* JavaScript values, one record shape: t is the type tag, n a number,     *)
(* s a text (the string's characters, or an Error's message), elems an     *)
(* array's numbers.                                                        *)

Val(t, n, s, elems) == [t |-> t, n |-> n, s |-> s, elems |-> elems]
Num(n) == Val("number", n, << >>, << >>)
Str(s) == Val("string", 0, s, << >>)
Bool(b) == Val("boolean", IF b THEN 1 ELSE 0, << >>, << >>)
Undefined == Val("undefined", 0, << >>, << >>)
Null == Val("null", 0, << >>, << >>)
Arr(elems) == Val("array", 0, << >>, elems)
ErrorObj(msg) == Val("Error", 0, msg, << >>)
\* the expression globalThis.n, read when the statement runs
GlobalRef == Val("globalThis.n", 0, << >>, << >>)
\* the expression window: the browser's global object, which refers to itself
Window == Val("window", 0, << >>, << >>)
\* the object { get message() { throw null } }
ThrowingMessage == Val("throwing_message", 0, << >>, << >>)

\* typeof arg === 'object' (line 44): null, arrays, Error objects, window and
\* object literals.
TypeofObject(v) == v.t \in {"null", "array", "Error", "window", "throwing_message"}

\* JSON.stringify(arg) throws: a TypeError on an object that refers to
\* itself, and whatever a getter it reads throws.
StringifyThrows(v) == v.t \in {"window", "throwing_message"}

\* The TypeError's message (the engine's wording).
CircularMessage == <<"Converting circular structure to JSON">>

\* The value JSON.stringify(arg) throws.
StringifyThrown(v) == IF v.t = "window" THEN ErrorObj(CircularMessage) ELSE Null

Digits == <<"0", "1", "2", "3", "4", "5", "6", "7", "8", "9">>

RECURSIVE NumStr(_)
\* String(n) of an integer: its decimal digits, most significant first.
NumStr(n) ==
  IF n < 0 THEN <<"-">> \o NumStr(0 - n)
  ELSE IF n < 10 THEN <<Digits[n + 1]>>
  ELSE NumStr(n \div 10) \o <<Digits[(n % 10) + 1]>>

RECURSIVE JoinWith(_, _)
\* Array.prototype.join: the texts of parts with sep between neighbours.
JoinWith(parts, sep) ==
  IF Len(parts) = 0 THEN << >>
  ELSE IF Len(parts) = 1 THEN parts[1]
  ELSE parts[1] \o sep \o JoinWith(Tail(parts), sep)

\* String(arg) of a value that is not an object.
StringOf(v) ==
  CASE v.t = "number" -> NumStr(v.n)
    [] v.t = "string" -> v.s
    [] v.t = "boolean" -> IF v.n = 1 THEN <<"true">> ELSE <<"false">>
    [] v.t = "undefined" -> <<"undefined">>
    [] v.t = "null" -> <<"null">>
    [] v.t = "array" -> JoinWith([i \in DOMAIN v.elems |-> NumStr(v.elems[i])], <<",">>)
    [] v.t = "Error" -> <<"Error: ">> \o v.s
    [] OTHER -> <<"undefined">>

\* JSON.stringify(arg) of an object: null, an array of numbers, an Error
\* (no enumerable own property).
JSONStringify(v) ==
  CASE v.t = "null" -> <<"null">>
    [] v.t = "array" ->
         <<"[">> \o JoinWith([i \in DOMAIN v.elems |-> NumStr(v.elems[i])], <<",">>) \o <<"]">>
    [] v.t = "Error" -> <<"{}">>
    [] OTHER -> StringOf(v)

\* arg => typeof arg === 'object' ? JSON.stringify(arg) : String(arg)
ArgText(v) == IF TypeofObject(v) THEN JSONStringify(v) ELSE StringOf(v)

\* args.map(...).join(' ')
ArgsLine(args) == JoinWith([i \in DOMAIN args |-> ArgText(args[i])], <<" ">>)

\* customConsole.log: logs.push(line)
HookLog(logs, args) == Append(logs, ArgsLine(args))

\* Faulty variant of HookError: the line is pushed without its prefix.
HookErrorNoPrefix(logs, args) == Append(logs, ArgsLine(args))

\* customConsole.error: logs.push(`Error: ${line}`)
HookError(logs, args) == Append(logs, <<"Error: ">> \o ArgsLine(args))

-----------------------------------------------------------------------------
(* Snippets: the statements of the source text.  callee is the text of a   *)
(* call up to and including its opening parenthesis; args and val are the  *)
(* literals written in the source.                                         *)

Stmt(op, callee, args, val) == [op |-> op, callee |-> callee, args |-> args, val |-> val]
\* callee args... )
Call(callee, args) == Stmt("call", callee, args, Undefined)
\* throw val
Throw(v) == Stmt("throw", "", << >>, v)
\* await new Promise(r => setTimeout(r, d))
AwaitDelay == Stmt("await_delay", "", << >>, Undefined)
\* await Promise.reject(val)
AwaitReject(v) == Stmt("await_reject", "", << >>, v)
\* await new Promise(() => {})
AwaitNever == Stmt("await_never", "", << >>, Undefined)
\* Promise.reject(val), not awaited
FloatReject(v) == Stmt("float_reject", "", << >>, v)
\* globalThis.n = (globalThis.n || 0) + 1
GlobalInc == Stmt("global_inc", "", << >>, Undefined)
\* const name = { log() {}, error() {} }
Const(name) == Stmt("const", name, << >>, Undefined)
\* setTimeout(() => callee args... ), 100), not awaited
LateCall(callee, args) == Stmt("late_call", callee, args, Undefined)
\* a call left open, callee args... with no closing parenthesis
Malformed(callee, args) == Stmt("malformed", callee, args, Undefined)

\* One match of /console\.(log|error)\(/ replaced by 'customConsole.$1('.
ReplaceAtom(a) ==
  IF a = "console.log(" THEN "customConsole.log("
  ELSE IF a = "console.error(" THEN "customConsole.error("
  ELSE a

\* String.prototype.replace with the g flag, on a text.
ReplaceText(text) == [i \in DOMAIN text |-> ReplaceAtom(text[i])]

\* The replace on a literal of the source: only a string literal (a string,
\* or the message of a new Error("...")) holds text.
ReplaceLiteral(v) == [v EXCEPT !.s = ReplaceText(@)]

\* The replace on one statement's text: its callee and its literals.
ReplaceStmt(st) ==
  [st EXCEPT !.callee = ReplaceAtom(@),
             !.args = [i \in DOMAIN @ |-> ReplaceLiteral(@[i])],
             !.val = ReplaceLiteral(@)]

\* The snippet inside transformedCode (lines 57-61): every occurrence replaced.
Transform(snippet) == [k \in DOMAIN snippet |-> ReplaceStmt(snippet[k])]

\* new Function('customConsole', transformedCode) throws a SyntaxError when the
\* text is not a function body.
SyntaxOK(body) == \A k \in DOMAIN body : body[k].op # "malformed"

\* The parser's message (the engine's wording): a non-empty text.
ParserMessage == <<"Unexpected token '}'">>

\* The TypeError of reading .message of null or undefined.
MessageOfNullish(v) == <<"Cannot read properties of ">> \o StringOf(v) \o <<" (reading 'message')">>

-----------------------------------------------------------------------------
(* Execution of the async arrow function of transformedCode.  m is the     *)
(* invocation: pc the next statement, logs the buffer of line 37, status   *)
(* where the arrow stands, thrown the value it rejected with, g the global *)
(* object's n, unh whether a rejection went unhandled.                     *)

Machine(pc, logs, status, thrown, g, unh) ==
  [pc |-> pc, logs |-> logs, status |-> status, thrown |-> thrown, g |-> g, unh |-> unh]

\* A literal's value when the statement runs.
Eval(v, g) == IF v.t = "globalThis.n" THEN Num(g) ELSE v

EvalArgs(args, g) == [i \in DOMAIN args |-> Eval(args[i], g)]

\* Faulty variant of CallEffect: every method of console is redirected to
\* the buffer.
CallEffectCapturesAll(st, m) ==
  LET args == EvalArgs(st.args, m.g)
  IN IF st.callee = "customConsole.error("
     THEN [m EXCEPT !.logs = HookError(@, args), !.pc = @ + 1]
     ELSE [m EXCEPT !.logs = HookLog(@, args), !.pc = @ + 1]

\* A call statement: the hooks are reached only as customConsole.log( and
\* customConsole.error(; any other callee is the real console's.  A hook
\* whose args.map throws (JSON.stringify, line 44 or 50) pushes nothing and
\* the exception leaves the call.
CallEffect(st, m) ==
  LET args == EvalArgs(st.args, m.g)
      bad == {a \in DOMAIN args : StringifyThrows(args[a])}
      first == CHOOSE a \in bad : \A b \in bad : a <= b
  IN CASE st.callee \notin {"customConsole.log(", "customConsole.error("} ->
            [m EXCEPT !.pc = @ + 1]
       [] bad # {} ->
            [m EXCEPT !.status = "rejected", !.thrown = StringifyThrown(args[first])]
       [] st.callee = "customConsole.log(" ->
            [m EXCEPT !.logs = HookLog(@, args), !.pc = @ + 1]
       [] OTHER ->
            [m EXCEPT !.logs = HookError(@, args), !.pc = @ + 1]

\* The message of the ReferenceError of a const read before its declaration
\* ran (the engine's wording).
UninitializedMessage == <<"Cannot access 'customConsole' before initialization">>

\* What the name customConsole of statement k refers to: the parameter of
\* new Function (the hooks), or the snippet's own const of that name, which
\* shadows the parameter in the whole arrow body and is uninitialized above
\* its declaration.
Binding(body, k) ==
  LET decls == {d \in DOMAIN body : body[d].op = "const" /\ body[d].callee = "customConsole"}
  IN IF decls = {} THEN "hooks"
     ELSE IF \E d \in decls : d < k THEN "own"
     ELSE "uninitialized"

\* Statement k calls a member of customConsole.
CallsCustomConsole(st) ==
  st.op = "call" /\ st.callee \in {"customConsole.log(", "customConsole.error("}

RECURSIVE Exec(_, _)
\* The arrow runs from m.pc until it suspends at an await or its promise
\* settles.  (A body with a malformed statement is never run: new Function
\* rejects it.)
Exec(body, m) ==
  IF m.pc > Len(body) THEN [m EXCEPT !.status = "fulfilled"]
  ELSE LET st == body[m.pc] IN
    CASE CallsCustomConsole(st) /\ Binding(body, m.pc) = "uninitialized" ->
           [m EXCEPT !.status = "rejected", !.thrown = ErrorObj(UninitializedMessage)]
      [] CallsCustomConsole(st) /\ Binding(body, m.pc) = "own" ->
           Exec(body, [m EXCEPT !.pc = @ + 1])
      [] st.op = "call" ->
           LET after == CallEffect(st, m)
           IN IF after.status = "rejected" THEN after ELSE Exec(body, after)
      [] st.op = "const" -> Exec(body, [m EXCEPT !.pc = @ + 1])
      [] st.op = "late_call" -> Exec(body, [m EXCEPT !.pc = @ + 1])
      [] st.op = "global_inc" -> Exec(body, [m EXCEPT !.g = @ + 1, !.pc = @ + 1])
      [] st.op = "float_reject" -> Exec(body, [m EXCEPT !.unh = TRUE, !.pc = @ + 1])
      [] st.op = "throw" -> [m EXCEPT !.status = "rejected", !.thrown = Eval(st.val, m.g)]
      [] st.op = "await_delay" -> [m EXCEPT !.status = "timer"]
      [] st.op = "await_reject" -> [m EXCEPT !.status = "micro"]
      [] st.op = "await_never" -> [m EXCEPT !.status = "never"]

\* The arrow resumes from the await it is suspended at.
Resume(body, m) ==
  LET st == body[m.pc] IN
    IF st.op = "await_reject"
    THEN [m EXCEPT !.status = "rejected", !.thrown = Eval(st.val, m.g)]
    ELSE Exec(body, [m EXCEPT !.pc = @ + 1, !.status = "run"])

-----------------------------------------------------------------------------
(* evaluateCode (lines 35-69).  A promise's outcome: kind is "pending",    *)
(* "fulfilled" (with text) or "rejected" (with the value err).             *)

Pending == [kind |-> "pending", text |-> << >>, err |-> Undefined]
Fulfilled(text) == [kind |-> "fulfilled", text |-> text, err |-> Undefined]
Rejected(err) == [kind |-> "rejected", text |-> << >>, err |-> err]

\* Faulty variant of MessageOf: a value without a message stands for its own
\* text.
MessageOfText(error) == IF error.t = "Error" THEN Str(error.s) ELSE Str(StringOf(error))

\* error.message: an Error's message, undefined on any other non-null value.
MessageOf(error) == IF error.t = "Error" THEN Str(error.s) ELSE Undefined

\* `Error: ${error.message}` (lines 66 and 80); reading .message of null or
\* undefined throws a TypeError instead, and a message getter that throws
\* throws its value.
ErrorLine(error) ==
  IF error.t \in {"null", "undefined"}
  THEN Rejected(ErrorObj(MessageOfNullish(error)))
  ELSE IF error.t = "throwing_message" THEN Rejected(Null)
  ELSE Fulfilled(<<"Error: ">> \o StringOf(MessageOf(error)))

\* Faulty variant of FreshLogs: one buffer shared by the invocations.
SharedLogs(previous) == previous

\* const logs = [] (line 37): the buffer of a new invocation, whatever the
\* buffer of the invocation before it holds.
FreshLogs(previous) == << >>

\* Faulty variant of EvaluateReturn: the catch block appends its line to the buffer
\* and returns the whole buffer.
EvaluateReturnKeepsLogs(m) ==
  IF m.status = "fulfilled" THEN Fulfilled(JoinWith(m.logs, <<"\n">>))
  ELSE LET line == ErrorLine(m.thrown)
       IN IF line.kind = "rejected" THEN line
          ELSE Fulfilled(JoinWith(Append(m.logs, line.text), <<"\n">>))

\* Lines 63-67 once the awaited arrow has settled: the joined buffer, or the
\* catch block's line.
EvaluateReturn(m) ==
  IF m.status = "fulfilled" THEN Fulfilled(JoinWith(m.logs, <<"\n">>))
  ELSE ErrorLine(m.thrown)

\* Faulty variant of SyntaxErrorReturn: new Function is called outside the try block.
SyntaxErrorEscapes(body) == Rejected(ErrorObj(ParserMessage))

\* The catch block on new Function's SyntaxError (the arrow never ran).
SyntaxErrorReturn(body) == ErrorLine(ErrorObj(ParserMessage))

\* A run: one invocation of handleRunCode and of the evaluateCode it calls.
\* codeToEval is the argument; pc, logs, status, thrown the arrow's
\* invocation; phase is "arrow" while the arrow is suspended, "evaluate" when
\* line 63's await is ready to resume, "handler" when line 75's await is, and
\* "done" after handleRunCode returned; settled is evaluateCode's promise,
\* handler the state of handleRunCode's; timers counts the timer callbacks
\* that resumed the arrow, lateFired the callbacks of the snippet's own
\* unawaited timers that have run.
NewRun(codeToEval, m, phase, settled) ==
  [codeToEval |-> codeToEval, pc |-> m.pc, logs |-> m.logs, status |-> m.status,
   thrown |-> m.thrown, phase |-> phase, settled |-> settled, handler |-> "pending",
   timers |-> 0, lateFired |-> 0]

\* Faulty variant of EvaluateCode: line 63 without its await, so line 64 returns the
\* buffer as soon as the arrow suspends.
EvaluateCodeNoAwait(codeToEval, previous, g) ==
  LET body == Transform(codeToEval)
      m0 == Machine(1, << >>, "run", Undefined, g, FALSE)
  IN IF ~SyntaxOK(body)
     THEN [run |-> NewRun(codeToEval, m0, "handler", ErrorLine(ErrorObj(ParserMessage))),
           m |-> m0]
     ELSE LET m == Exec(body, m0)
          IN [run |-> NewRun(codeToEval, m, "handler", Fulfilled(JoinWith(m.logs, <<"\n">>))),
              m |-> m]

\* Faulty variant of EvaluateCode: an empty codeToEval is refused.
EvaluateCodeRefusesEmpty(codeToEval, previous, g) ==
  LET body == Transform(codeToEval)
      m0 == Machine(1, << >>, "run", Undefined, g, FALSE)
  IN IF codeToEval = << >> \/ ~SyntaxOK(body)
     THEN [run |-> NewRun(codeToEval, m0, "handler", ErrorLine(ErrorObj(ParserMessage))),
           m |-> m0]
     ELSE LET m == Exec(body, m0)
          IN [run |-> NewRun(codeToEval, m,
                             IF m.status \in {"fulfilled", "rejected"} THEN "evaluate" ELSE "arrow",
                             Pending),
              m |-> m]

\* evaluateCode from its call to its first suspension.
EvaluateCode(codeToEval, previous, g) ==
  LET body == Transform(codeToEval)
      m0 == Machine(1, FreshLogs(previous), "run", Undefined, g, FALSE)
  IN IF ~SyntaxOK(body)
     THEN [run |-> NewRun(codeToEval, m0, "handler", SyntaxErrorReturn(body)), m |-> m0]
     ELSE LET m == Exec(body, m0)
          IN [run |-> NewRun(codeToEval, m,
                             IF m.status \in {"fulfilled", "rejected"} THEN "evaluate" ELSE "arrow",
                             Pending),
              m |-> m]

\* A run after its arrow ran on from an await.
Advance(r, m) ==
  [r EXCEPT !.pc = m.pc, !.logs = m.logs, !.status = m.status, !.thrown = m.thrown,
            !.phase = IF m.status \in {"fulfilled", "rejected"} THEN "evaluate" ELSE "arrow"]

MachineOf(r, g) == Machine(r.pc, r.logs, r.status, r.thrown, g, FALSE)

\* The unawaited timers the arrow has set so far, in the order it set them.
LateSet(r) ==
  LET body == Transform(r.codeToEval)
  IN SelectSeq([k \in 1..Len(body) |-> k],
               LAMBDA k : k < r.pc /\ body[k].op = "late_call")

\* The timers among them whose callback has not run yet.
LatePending(r) == Len(LateSet(r)) - r.lateFired

\* The callback of the run's oldest pending timer runs: its call reaches the
\* hooks of its own invocation, whose buffer is still alive (line 37's logs
\* is closed over), whether evaluateCode has returned or not.
LateCallback(r, g) ==
  LET body == Transform(r.codeToEval)
      k == LateSet(r)[r.lateFired + 1]
      call == Call(body[k].callee, body[k].args)
      m == IF CallsCustomConsole(call) /\ Binding(body, k) # "hooks"
           THEN MachineOf(r, g)
           ELSE CallEffect(call, MachineOf(r, g))
  IN [r EXCEPT !.logs = m.logs, !.lateFired = @ + 1]

\* What handleRunCode displays when line 75's await resumes: the result
\* (line 76), or the catch block's line (line 80); rejected when that catch
\* block throws in turn, and then setOutput is not called.
HandlerOutput(settled) ==
  IF settled.kind = "fulfilled" THEN Fulfilled(settled.text)
  ELSE ErrorLine(settled.err)

-----------------------------------------------------------------------------
(* The snippets the editor is given.                                       *)

Boom == <<"boom">>

\* console.log("Hello, World!")   (the initial snippet, line 32)
SnHello == <<Call("console.log(", <<Str(<<"Hello, World!">>)>>)>>
\* console.log(1); console.log("a", "b")
SnTwoLogs == <<Call("console.log(", <<Num(1)>>),
               Call("console.log(", <<Str(<<"a">>), Str(<<"b">>)>>)>>
\* console.log(12, true, undefined, "console.log(")
SnLiteral == <<Call("console.log(", <<Num(12), Bool(TRUE), Undefined, Str(<<"console.log(">>)>>)>>
\* console.log("x"); throw new Error("boom")
SnThrow == <<Call("console.log(", <<Str(<<"x">>)>>), Throw(ErrorObj(Boom))>>
\* throw null
SnThrowNull == <<Throw(Null)>>
\* throw "boom"
SnThrowString == <<Throw(Str(Boom))>>
\* console.log("a"); await new Promise(r => setTimeout(r, 100)); console.log("b")
SnDelay == <<Call("console.log(", <<Str(<<"a">>)>>), AwaitDelay,
             Call("console.log(", <<Str(<<"b">>)>>)>>
\* console.log("x"); await Promise.reject(new Error("boom"))
SnAwaitReject == <<Call("console.log(", <<Str(<<"x">>)>>), AwaitReject(ErrorObj(Boom))>>
\* await Promise.reject(undefined)
SnAwaitRejectUndefined == <<AwaitReject(Undefined)>>
\* Promise.reject(new Error("boom")); console.log("x")
SnFloatReject == <<FloatReject(ErrorObj(Boom)), Call("console.log(", <<Str(<<"x">>)>>)>>
\* console.log("a"); console.log("b"
SnSyntax == <<Call("console.log(", <<Str(<<"a">>)>>),
              Malformed("console.log(", <<Str(<<"b">>)>>)>>
\* console.error("bad", [1, 2], null); console.warn("w"); console.log("after")
SnError == <<Call("console.error(", <<Str(<<"bad">>), Arr(<<1, 2>>), Null>>),
             Call("console.warn(", <<Str(<<"w">>)>>),
             Call("console.log(", <<Str(<<"after">>)>>)>>
\* globalThis.n = (globalThis.n || 0) + 1; console.log(globalThis.n)
SnGlobal == <<GlobalInc, Call("console.log(", <<GlobalRef>>)>>
\* await new Promise(() => {})
SnNever == <<Call("console.log(", <<Str(<<"a">>)>>), AwaitNever>>
\* the empty snippet
SnEmpty == << >>
\* const console = { log() {}, error() {} }; console.log("x")
SnShadowConsole == <<Const("console"), Call("console.log(", <<Str(<<"x">>)>>)>>
\* const customConsole = { log() {}, error() {} }; console.log("x")
SnShadowCustom == <<Const("customConsole"), Call("console.log(", <<Str(<<"x">>)>>)>>
\* console.log("x"); console.error(window); console.log("after")
SnErrorWindow == <<Call("console.log(", <<Str(<<"x">>)>>),
                   Call("console.error(", <<Window>>),
                   Call("console.log(", <<Str(<<"after">>)>>)>>
\* throw { get message() { throw null } }
SnThrowGetter == <<Throw(ThrowingMessage)>>
\* setTimeout(() => console.log("late"), 100); console.log("now")
SnLate == <<LateCall("console.log(", <<Str(<<"late">>)>>),
            Call("console.log(", <<Str(<<"now">>)>>)>>
\* console.error("boom")
SnErrorOnly == <<Call("console.error(", <<Str(Boom)>>)>>
\* throw new Error("boom")
SnThrowOnly == <<Throw(ErrorObj(Boom))>>

Snippets ==
  {SnHello, SnTwoLogs, SnLiteral, SnThrow, SnThrowNull, SnThrowString, SnDelay,
   SnAwaitReject, SnAwaitRejectUndefined, SnFloatReject, SnSyntax, SnError,
   SnGlobal, SnNever, SnEmpty, SnShadowConsole, SnShadowCustom, SnErrorWindow,
   SnThrowGetter, SnLate, SnErrorOnly, SnThrowOnly}

-----------------------------------------------------------------------------
(* The component on the event loop.  code and output are the two useState  *)
(* cells; runs the invocations of handleRunCode so far, in click order;    *)
(* globalN the n of the global object the snippets share; unhandled        *)
(* whether a promise rejection reached the host unhandled.                 *)

Init ==
  /\ code = SnHello
  /\ output = << >>
  /\ runs = << >>
  /\ globalN = 0
  /\ unhandled = FALSE

\* A continuation is on the microtask queue: the event loop runs it before
\* any click, edit or timer.
MicrotaskReady(r) ==
  \/ r.phase \in {"evaluate", "handler"}
  \/ r.phase = "arrow" /\ r.status = "micro"

MicrotaskQueued == \E i \in DOMAIN runs : MicrotaskReady(runs[i])

\* Faulty variant of SetCode: an edit also clears the display.
SetCodeClearsOutput(value) ==
  /\ ~MicrotaskQueued
  /\ Len(runs) < MaxRuns \/ \E i \in DOMAIN runs : runs[i].phase # "done"
  /\ value # code
  /\ code' = value
  /\ output' = << >>
  /\ UNCHANGED <<runs, globalN, unhandled>>

\* The editor's onChange (line 90): setCode(value).  Edits are explored while
\* a click may follow them or a run is in flight (once the last click
\* explored has finished, nothing reads the snippet any more).
SetCode(value) ==
  /\ ~MicrotaskQueued
  /\ Len(runs) < MaxRuns \/ \E i \in DOMAIN runs : runs[i].phase # "done"
  /\ value # code
  /\ code' = value
  /\ UNCHANGED <<output, runs, globalN, unhandled>>

\* Faulty variant of HandleRunCode: line 74's setOutput("") is missing.
HandleRunCodeKeepsOutput ==
  /\ ~MicrotaskQueued
  /\ Len(runs) < MaxRuns
  /\ LET previous == IF runs = << >> THEN << >> ELSE runs[Len(runs)].logs
         e == EvaluateCode(code, previous, globalN)
     IN /\ runs' = Append(runs, e.run)
        /\ globalN' = e.m.g
        /\ unhandled' = (unhandled \/ e.m.unh)
  /\ UNCHANGED <<code, output>>

\* Faulty variant of HandleRunCode: the handler reads the snippet of the
\* first render (a stale closure) instead of the current one.
HandleRunCodeStale ==
  /\ ~MicrotaskQueued
  /\ Len(runs) < MaxRuns
  /\ LET previous == IF runs = << >> THEN << >> ELSE runs[Len(runs)].logs
         e == EvaluateCode(SnHello, previous, globalN)
     IN /\ output' = << >>
        /\ runs' = Append(runs, e.run)
        /\ globalN' = e.m.g
        /\ unhandled' = (unhandled \/ e.m.unh)
  /\ UNCHANGED code

\* A click on Run Code: handleRunCode up to its await (lines 72-75).
HandleRunCode ==
  /\ ~MicrotaskQueued
  /\ Len(runs) < MaxRuns
  /\ LET previous == IF runs = << >> THEN << >> ELSE runs[Len(runs)].logs
         e == EvaluateCode(code, previous, globalN)
     IN /\ output' = << >>
        /\ runs' = Append(runs, e.run)
        /\ globalN' = e.m.g
        /\ unhandled' = (unhandled \/ e.m.unh)
  /\ UNCHANGED code

\* Faulty variant of ArrowResumes: the hooks also display the buffer as it
\* grows.
ArrowResumesStreams(i, timer) ==
  LET r == runs[i]
      m == Resume(Transform(r.codeToEval), MachineOf(r, globalN))
  IN /\ runs' = [runs EXCEPT ![i] = [Advance(r, m) EXCEPT !.timers = @ + timer]]
     /\ globalN' = m.g
     /\ unhandled' = (unhandled \/ m.unh)
     /\ output' = JoinWith(m.logs, <<"\n">>)
     /\ UNCHANGED code

\* The arrow resumes: m is where its invocation then stands.
ArrowResumes(i, timer) ==
  LET r == runs[i]
      m == Resume(Transform(r.codeToEval), MachineOf(r, globalN))
  IN /\ runs' = [runs EXCEPT ![i] = [Advance(r, m) EXCEPT !.timers = @ + timer]]
     /\ globalN' = m.g
     /\ unhandled' = (unhandled \/ m.unh)
     /\ UNCHANGED <<code, output>>

\* A microtask: the arrow resumes from an await of a settled promise.
ArrowMicrotask(i) ==
  /\ runs[i].phase = "arrow" /\ runs[i].status = "micro"
  /\ ArrowResumes(i, 0)

\* Faulty variant of TimerFires: a timeout also ends a wait that never
\* settles.
TimerFiresTimesOut(i) ==
  /\ ~MicrotaskQueued
  /\ runs[i].phase = "arrow" /\ runs[i].status \in {"timer", "never"}
  /\ \A j \in 1..(i - 1) : runs[j].status # "timer"
  /\ \A j \in 1..i : LatePending(runs[j]) = 0
  /\ ArrowResumes(i, 1)

\* A timer task: setTimeout's callback resolves the promise the arrow awaits.
\* The snippets' timers have one delay, so they fire in the order they were
\* set.
TimerFires(i) ==
  /\ ~MicrotaskQueued
  /\ runs[i].phase = "arrow" /\ runs[i].status = "timer"
  /\ \A j \in 1..(i - 1) : runs[j].status # "timer"
  /\ \A j \in 1..i : LatePending(runs[j]) = 0
  /\ ArrowResumes(i, 1)

\* A timer task: the callback of a timer the snippet set and did not await.
LateTimerFires(i) ==
  /\ ~MicrotaskQueued
  /\ LatePending(runs[i]) > 0
  /\ \A j \in 1..(i - 1) : runs[j].status # "timer" /\ LatePending(runs[j]) = 0
  /\ runs' = [runs EXCEPT ![i] = LateCallback(runs[i], globalN)]
  /\ UNCHANGED <<code, output, globalN, unhandled>>

\* A microtask: evaluateCode resumes from line 63's await and returns.
EvaluateCodeResumes(i) ==
  /\ runs[i].phase = "evaluate"
  /\ runs' = [runs EXCEPT ![i] = [@ EXCEPT !.phase = "handler",
                                          !.settled = EvaluateReturn(runs[i])]]
  /\ UNCHANGED <<code, output, globalN, unhandled>>

\* A microtask: handleRunCode resumes from line 75's await (lines 76-82).
HandleRunCodeResumes(i) ==
  /\ runs[i].phase = "handler"
  /\ LET shown == HandlerOutput(runs[i].settled)
     IN /\ output' = IF shown.kind = "fulfilled" THEN shown.text ELSE output
        /\ runs' = [runs EXCEPT ![i] = [@ EXCEPT !.phase = "done", !.handler = shown.kind]]
        /\ unhandled' = (unhandled \/ shown.kind = "rejected")
  /\ UNCHANGED <<code, globalN>>

\* Faulty variant of OutputPanel: the block is rendered unconditionally.
OutputPanelAlways(out) == [shown |-> TRUE, text |-> out]

\* {output && <div>...<pre>{output}</pre></div>} (lines 108-118): the block
\* is rendered when output is not the empty string, and shows it.
OutputPanel(out) == [shown |-> out # << >>, text |-> out]

Next ==
  \/ \E value \in Snippets : SetCode(value)
  \/ HandleRunCode
  \/ \E i \in DOMAIN runs : ArrowMicrotask(i)
  \/ \E i \in DOMAIN runs : TimerFires(i)
  \/ \E i \in DOMAIN runs : LateTimerFires(i)
  \/ \E i \in DOMAIN runs : EvaluateCodeResumes(i)
  \/ \E i \in DOMAIN runs : HandleRunCodeResumes(i)

Spec == Init /\ [][Next]_vars

\* A step of the event loop: the next continuation on the microtask queue,
\* or the callback of a timer that is due.
EventLoopStep ==
  \E i \in DOMAIN runs :
    \/ ArrowMicrotask(i)
    \/ EvaluateCodeResumes(i)
    \/ HandleRunCodeResumes(i)
    \/ TimerFires(i)
    \/ LateTimerFires(i)

\* The event loop's scheduling: it does not stop while a continuation is
\* queued or a timer is due.
FairSpec == Spec /\ WF_vars(EventLoopStep)

TypeOK ==
  /\ code \in Snippets
  /\ Len(runs) <= MaxRuns
  /\ \A i \in DOMAIN runs : runs[i].phase \in {"arrow", "evaluate", "handler", "done"}

-----------------------------------------------------------------------------
(* Properties.                                                             *)

Settled(r) == r.settled.kind # "pending"
Primitive(v) == v.t \in {"number", "string", "boolean", "undefined", "null"}
StartsWithError(text) == Len(text) >= 1 /\ text[1] = "Error: "

\* The snippet is nothing but console.log( calls on primitive literals.
OnlyLogCalls(snippet) ==
  \A k \in DOMAIN snippet :
    /\ snippet[k].op = "call"
    /\ snippet[k].callee = "console.log("
    /\ \A a \in DOMAIN snippet[k].args : Primitive(snippet[k].args[a])

\* What the snippet's text says it prints: per call its arguments as written,
\* separated by one space, the calls separated by newlines.
WrittenTranscript(snippet) ==
  JoinWith([k \in DOMAIN snippet |->
              JoinWith([a \in DOMAIN snippet[k].args |-> StringOf(snippet[k].args[a])],
                       <<" ">>)],
           <<"\n">>)

\* C1: the promise returned by evaluateCode never rejects: whenever it has
\* settled, it is fulfilled (with a string).
C1_EvaluateCodeNeverRejects ==
  \A i \in DOMAIN runs : runs[i].settled.kind # "rejected"

\* C2: handleRunCode starts a new invocation of evaluateCode only when every
\* invocation started before has settled (at most one run in flight).
C2_OneRunInFlight ==
  [][Len(runs') > Len(runs) => \A i \in DOMAIN runs : Settled(runs[i])]_vars

\* C3: whenever no run is in flight (and one was triggered), the displayed
\* output is the result of the run triggered last.
C3_OutputIsLatestResult ==
  (runs # << >> /\ \A i \in DOMAIN runs : runs[i].phase = "done")
    => output = HandlerOutput(runs[Len(runs)].settled).text

\* C4: a snippet of console.log calls on primitive arguments evaluates to the
\* arguments of each call joined by one space, the calls joined by newlines.
C4_LogTranscript ==
  \A i \in DOMAIN runs :
    (OnlyLogCalls(runs[i].codeToEval) /\ Settled(runs[i]))
      => runs[i].settled = Fulfilled(WrittenTranscript(runs[i].codeToEval))

\* The statement reads or writes the global object's n.
TouchesGlobal(snippet) ==
  \E k \in DOMAIN snippet :
    \/ snippet[k].op = "global_inc"
    \/ \E a \in DOMAIN snippet[k].args : snippet[k].args[a].t = "globalThis.n"

\* The rewrite leaves the snippet's literals as written.
RewriteFree(snippet) ==
  \A k \in DOMAIN snippet :
    /\ ReplaceStmt(snippet[k]).args = snippet[k].args
    /\ ReplaceStmt(snippet[k]).val = snippet[k].val

IsHookCall(st) ==
  st.op = "call" /\ st.callee \in {"customConsole.log(", "customConsole.error("}

\* The line a hook call is to add: its arguments' texts separated by one
\* space, after `Error: ` for the error hook.
CallLine(st) ==
  IF st.callee = "customConsole.error(" THEN <<"Error: ">> \o ArgsLine(st.args)
  ELSE ArgsLine(st.args)

RECURSIVE LinesOf(_)
\* The lines of the body's hook calls, in call order.
LinesOf(body) ==
  IF body = << >> THEN << >>
  ELSE (IF IsHookCall(Head(body)) THEN <<CallLine(Head(body))>> ELSE << >>)
         \o LinesOf(Tail(body))

\* C5: when the snippet throws an exception with message M, the result is
\* exactly `Error: M`, whatever the snippet logged before.
C5_ThrowGivesErrorLine ==
  \A i \in DOMAIN runs :
    (runs[i].status = "rejected" /\ runs[i].thrown.t = "Error" /\ Settled(runs[i]))
      => runs[i].settled = Fulfilled(<<"Error: ">> \o runs[i].thrown.s)

\* C5 witness: console.log("x"); throw new Error("boom") has run, has logged
\* a line, and `Error: boom` alone is displayed.
C5_Witness ==
  \E i \in DOMAIN runs :
    /\ runs[i].codeToEval = SnThrow
    /\ runs[i].phase = "done"
    /\ runs[i].logs = <<(<<"x">>)>>
    /\ runs[i].settled.text = <<"Error: ", "boom">>
    /\ output = <<"Error: ", "boom">>

C7_AwaitedRejectionCaught ==
  \A i \in DOMAIN runs :
    LET r == runs[i]
        body == Transform(r.codeToEval)
    IN (/\ r.status = "rejected"
        /\ r.pc \in DOMAIN body
        /\ body[r.pc].op = "await_reject"
        /\ Settled(r))
         => r.settled.kind = "fulfilled" /\ StartsWithError(r.settled.text)

\* C8: a snippet with a syntax error resolves to a text starting with
\* `Error: `, nothing of it runs, and a run started after it yields its own
\* transcript.
C8_SyntaxErrorConfined ==
  \A i \in DOMAIN runs :
    ~SyntaxOK(Transform(runs[i].codeToEval))
      => /\ runs[i].settled.kind = "fulfilled"
         /\ StartsWithError(runs[i].settled.text)
         /\ runs[i].logs = << >>
         /\ \A j \in DOMAIN runs :
              (/\ j > i
               /\ OnlyLogCalls(runs[j].codeToEval)
               /\ RewriteFree(runs[j].codeToEval)
               /\ Settled(runs[j]))
                => runs[j].settled = Fulfilled(WrittenTranscript(runs[j].codeToEval))

\* C8 witness: after a run of the malformed snippet, a second run has
\* displayed its transcript.
C8_Witness ==
  /\ Len(runs) = 2
  /\ runs[1].codeToEval = SnSyntax
  /\ runs[1].settled = Fulfilled(<<"Error: ">> \o ParserMessage)
  /\ runs[2].codeToEval = SnTwoLogs
  /\ runs[2].phase = "done"
  /\ output = <<"1", "\n", "a", " ", "b">>

\* What holds of C9: the line an error hook call has pushed starts with
\* `Error: `, and the buffer and the result of a run that ends normally hold
\* one line per hook call of the snippet, in call order, those after the
\* error call included.
ErrorHookLines ==
  \A i \in DOMAIN runs :
    LET r == runs[i]
        body == Transform(r.codeToEval)
        errors == {k \in DOMAIN body : body[k].callee = "customConsole.error("}
        hooks == {k \in DOMAIN body : IsHookCall(body[k])}
        LineNo(k) == Cardinality({h \in hooks : h <= k})
    IN (errors # {} /\ ~TouchesGlobal(body) /\ SyntaxOK(body))
         => /\ \A k \in errors : k < r.pc =>
                  /\ LineNo(k) <= Len(r.logs)
                  /\ StartsWithError(r.logs[LineNo(k)])
            /\ \A k \in hooks : k < r.pc =>
                  /\ LineNo(k) <= Len(r.logs)
                  /\ r.logs[LineNo(k)] = CallLine(body[k])
            /\ (Settled(r) /\ r.status = "fulfilled")
                  => r.settled = Fulfilled(JoinWith(LinesOf(body), <<"\n">>))

\* C9: the line of a console.error call starts with `Error: `, and the call
\* does not end the run: the arrow never stops at it, and the lines logged
\* after it follow its line.
C9_ErrorLineDoesNotStop ==
  /\ ErrorHookLines
  /\ \A i \in DOMAIN runs :
       LET r == runs[i]
           body == Transform(r.codeToEval)
       IN (SyntaxOK(body) /\ r.status = "rejected" /\ r.pc \in DOMAIN body)
            => body[r.pc].callee # "customConsole.error("

\* The case of C9 that goes well: console.error("bad", [1, 2], null);
\* console.warn("w"); console.log("after") displays the error line and then
\* `after`.
ErrorLineThenAfter ==
  \E i \in DOMAIN runs :
    /\ runs[i].codeToEval = SnError
    /\ runs[i].phase = "done"
    /\ output = <<"Error: ", "bad", " ", "[", "1", ",", "2", "]", " ", "null", "\n", "after">>

\* C10: two successive runs of one snippet that does not touch the global
\* object settle with the same result.
C10_SameSnippetSameResult ==
  \A i \in DOMAIN runs :
    \A j \in DOMAIN runs :
      (/\ j = i + 1
       /\ runs[i].codeToEval = runs[j].codeToEval
       /\ ~TouchesGlobal(runs[i].codeToEval)
       /\ Settled(runs[i])
       /\ Settled(runs[j]))
        => runs[i].settled = runs[j].settled

\* C10 witness: the same logging snippet has run twice, the second run after
\* the first had finished, and both hold the same non-empty transcript.
C10_Witness ==
  /\ Len(runs) = 2
  /\ runs[1].codeToEval = SnTwoLogs
  /\ runs[2].codeToEval = SnTwoLogs
  /\ runs[1].phase = "done"
  /\ runs[2].phase = "done"
  /\ runs[2].settled = Fulfilled(<<"1", "\n", "a", " ", "b">>)
  /\ runs[1].settled = runs[2].settled

\* The global object is shared: the counting snippet prints 1, then 2.
GlobalIsShared ==
  \A i \in DOMAIN runs :
    (runs[i].codeToEval = SnGlobal /\ Settled(runs[i]))
      => runs[i].settled.text = NumStr(Cardinality({j \in 1..i : runs[j].codeToEval = SnGlobal}))

\* C11: the empty snippet evaluates to the empty text, not to an error line:
\* its arrow is fulfilled with an empty buffer and its result is "".
C11_EmptySnippetEmptyTranscript ==
  \A i \in DOMAIN runs :
    runs[i].codeToEval = SnEmpty
      => /\ runs[i].status = "fulfilled"
         /\ runs[i].logs = << >>
         /\ Settled(runs[i]) => runs[i].settled = Fulfilled(<< >>)
         /\ runs[i].phase = "done" => runs[i].handler = "fulfilled"

\* C11 witness: a run of the empty snippet has finished after an earlier run
\* displayed a line, and the display is empty.
C11_Witness ==
  /\ Len(runs) = 2
  /\ runs[1].codeToEval = SnHello
  /\ runs[1].phase = "done"
  /\ runs[2].codeToEval = SnEmpty
  /\ runs[2].phase = "done"
  /\ runs[2].settled = Fulfilled(<< >>)
  /\ output = << >>

\* C12: a click clears the display and passes the current snippet to
\* evaluateCode in the same step; the display is set to a non-empty text only
\* by the step in which a handleRunCode resumes from its await, evaluateCode's
\* promise being settled by then, and that step displays the returned string.
C12_ClearEvaluateThenStore ==
  [][/\ Len(runs') > Len(runs)
          => /\ output' = << >>
             /\ runs'[Len(runs')].codeToEval = code
             /\ runs'[Len(runs')].handler = "pending"
     /\ \A i \in DOMAIN runs :
          (runs[i].phase # "done" /\ runs'[i].phase = "done")
             => /\ Settled(runs[i])
                /\ runs[i].settled.kind = "fulfilled" => output' = runs[i].settled.text
     /\ (output' # output /\ output' # << >>)
          => \E i \in DOMAIN runs : runs[i].phase = "handler" /\ runs'[i].phase = "done"
    ]_vars

\* C12 witness: a second click has cleared the line the first run displayed,
\* and its evaluateCode is still pending.
C12_Witness ==
  /\ Len(runs) = 2
  /\ runs[1].codeToEval = SnHello
  /\ runs[1].phase = "done"
  /\ runs[2].codeToEval = SnDelay
  /\ ~Settled(runs[2])
  /\ output = << >>

\* C13: when evaluateCode's promise rejects, handleRunCode catches the
\* rejection and has displayed an `Error: ...` line when it returns;
\* handleRunCode's own promise never rejects.
C13_HandlerNeverRejects ==
  [][\A i \in DOMAIN runs :
       (runs[i].phase = "handler" /\ runs'[i].phase = "done"
          /\ runs[i].settled.kind = "rejected")
         => /\ runs'[i].handler = "fulfilled"
            /\ StartsWithError(output')
    ]_vars

\* The half of C13 that holds: after throw null, evaluateCode has rejected
\* with the TypeError and handleRunCode displays its message.
RejectionOfNullDisplayed ==
  \A i \in DOMAIN runs :
    (Len(runs) = 1 /\ runs[i].codeToEval = SnThrowNull /\ runs[i].phase = "done")
      => /\ runs[i].handler = "fulfilled"
         /\ output = <<"Error: ">> \o MessageOfNullish(Null)

\* The snippet declares a binding of its own with this name.
Declares(snippet, name) ==
  \E k \in DOMAIN snippet : snippet[k].op = "const" /\ snippet[k].callee = name

\* C14: when the snippet declares its own console or its own customConsole,
\* its console.log( and console.error( calls still reach the hooks: the
\* result of a run that ends normally holds the line of each of them.
C14_ShadowingStaysCaptured ==
  \A i \in DOMAIN runs :
    LET r == runs[i]
        body == Transform(r.codeToEval)
    IN (/\ Declares(r.codeToEval, "console") \/ Declares(r.codeToEval, "customConsole")
        /\ r.status = "fulfilled"
        /\ Settled(r))
         => r.settled = Fulfilled(JoinWith(LinesOf(body), <<"\n">>))

\* The half of C14 that holds: a snippet's own console does not take the
\* calls away from the hooks.
OwnConsoleStaysCaptured ==
  \A i \in DOMAIN runs :
    (runs[i].codeToEval = SnShadowConsole /\ Settled(runs[i]))
      => runs[i].settled = Fulfilled(<<"x">>)

\* C15: when a handleRunCode stores its result, the output panel is rendered
\* if and only if that string is not empty, and then shows exactly that
\* string; the click's setOutput("") takes the panel away.
C15_PanelShowsStoredResult ==
  [][/\ \A i \in DOMAIN runs :
          (runs[i].phase = "handler" /\ runs'[i].phase = "done"
             /\ runs'[i].handler = "fulfilled")
            => LET stored == HandlerOutput(runs[i].settled).text
               IN /\ OutputPanel(output').shown <=> stored # << >>
                  /\ stored # << >> => OutputPanel(output').text = stored
     /\ Len(runs') > Len(runs) => ~OutputPanel(output').shown
    ]_vars

\* C15 witness: after a run that displayed two lines, a run of the empty
\* snippet has stored its empty transcript and no panel is rendered.
C15_Witness ==
  /\ Len(runs) = 2
  /\ runs[1].codeToEval = SnTwoLogs
  /\ runs[1].phase = "done"
  /\ runs[2].codeToEval = SnEmpty
  /\ runs[2].handler = "fulfilled"
  /\ ~OutputPanel(output).shown

\* C16: whenever a run is in flight (its evaluateCode promise has not
\* settled), the displayed output is empty.
C16_RunningOutputEmpty ==
  (\E i \in DOMAIN runs : ~Settled(runs[i])) => output = << >>

\* What holds of C16: the display is empty while the first run, which no
\* other run overlaps, is in flight.
SoleRunningOutputEmpty ==
  (Len(runs) = 1 /\ ~Settled(runs[1])) => output = << >>

\* C17: no step in which a run's buffer grows shows anything of it; the
\* display changes only when a click clears it and when a handleRunCode whose
\* evaluateCode has settled stores the whole result at once.
C17_NoPartialOutput ==
  [][/\ \A i \in DOMAIN runs : runs'[i].logs # runs[i].logs => output' = output
     /\ Len(runs') > Len(runs) => output' = << >>
     /\ output' # output
          => \/ Len(runs') > Len(runs)
             \/ \E i \in DOMAIN runs :
                  /\ runs[i].phase = "handler" /\ runs'[i].phase = "done"
                  /\ Settled(runs[i])
                  /\ runs'[i].logs = runs[i].logs
                  /\ output' = HandlerOutput(runs[i].settled).text
    ]_vars

\* C17 witness: a run has logged its first line and waits on its timer, and
\* nothing is displayed.
C17_Witness ==
  /\ Len(runs) = 1
  /\ runs[1].codeToEval = SnDelay
  /\ runs[1].logs = <<(<<"a">>)>>
  /\ runs[1].status = "timer"
  /\ output = << >>

\* The lines of the first n unawaited timer callbacks of the body.
LateLines(body, n) ==
  LET late == SelectSeq(body, LAMBDA st : st.op = "late_call")
  IN [k \in 1..n |-> CallLine(late[k])]

\* C18: the buffer of an invocation holds the lines of the hook calls its own
\* snippet has made so far (those of its arrow, then those of its timer
\* callbacks that ran after the arrow ended) and nothing else, whatever other
\* runs came before or are in flight; so does its result.
C18_OwnBuffer ==
  \A i \in DOMAIN runs :
    LET r == runs[i]
        body == Transform(r.codeToEval)
        made == LinesOf(SubSeq(body, 1, r.pc - 1))
    IN (SyntaxOK(body) /\ ~TouchesGlobal(body) /\ ~Declares(body, "customConsole"))
         => /\ r.logs = made \o LateLines(body, r.lateFired)
            /\ (Settled(r) /\ r.status = "fulfilled")
                 => r.settled.text = JoinWith(made, <<"\n">>)

\* C18 witness: while a first run waits on its timer with one line in its
\* buffer, a second run has settled with its own two lines.
C18_Witness ==
  /\ Len(runs) = 2
  /\ runs[1].codeToEval = SnDelay
  /\ runs[1].status = "timer"
  /\ runs[1].logs = <<(<<"a">>)>>
  /\ runs[2].codeToEval = SnTwoLogs
  /\ runs[2].settled = Fulfilled(<<"1", "\n", "a", " ", "b">>)

ConsoleCalls == {"console.log(", "console.error("}

\* No text of the statement matches /console\.(log|error)\(/.
NoMatchIn(st) ==
  /\ st.callee \notin ConsoleCalls
  /\ \A a \in DOMAIN st.args : \A c \in DOMAIN st.args[a].s : st.args[a].s[c] \notin ConsoleCalls
  /\ \A c \in DOMAIN st.val.s : st.val.s[c] \notin ConsoleCalls

\* The part of C19 that holds: the rewritten text of the snippet in the
\* editor holds no console.log( and no console.error( any more, and each
\* console.log( / console.error( call has become a customConsole call.
EveryOccurrenceReplaced ==
  LET body == Transform(code)
  IN \A k \in DOMAIN body :
       /\ NoMatchIn(body[k])
       /\ code[k].callee \in ConsoleCalls => body[k].callee = ReplaceAtom(code[k].callee)
       /\ code[k].callee \in ConsoleCalls => body[k].callee \notin ConsoleCalls

\* C19: every console.log( and console.error( of the snippet is rewritten,
\* and every call the snippet has made through one has put its line into the
\* buffer.
C19_EveryOccurrenceCaptured ==
  \A i \in DOMAIN runs :
    LET r == runs[i]
        src == r.codeToEval
        body == Transform(src)
        made == {k \in DOMAIN src : k < r.pc /\ src[k].op = "call" /\ src[k].callee \in ConsoleCalls}
    IN /\ \A k \in DOMAIN body : NoMatchIn(body[k])
       /\ SyntaxOK(body) => Len(r.logs) = Cardinality(made) + r.lateFired

\* The part of C20 that holds: no step removes, changes or reorders an entry
\* of a buffer, and the result of a run that ends normally is its buffer
\* joined by newlines (the buffer before any timer callback added to it).
BufferAppendOnly ==
  [][\A i \in DOMAIN runs :
       /\ Len(runs'[i].logs) >= Len(runs[i].logs)
       /\ SubSeq(runs'[i].logs, 1, Len(runs[i].logs)) = runs[i].logs
       /\ (Settled(runs'[i]) /\ runs'[i].status = "fulfilled" /\ runs'[i].lateFired = 0)
            => runs'[i].settled.text = JoinWith(runs'[i].logs, <<"\n">>)
    ]_vars

\* C20: every call of a hook has appended exactly one entry to the buffer,
\* the line of its arguments, in call order (the buffer holds one entry per
\* hook call made, the call the arrow stopped in included), and the result of
\* a run that ends normally is the buffer joined by newlines.
C20_OneEntryPerHookCall ==
  \A i \in DOMAIN runs :
    LET r == runs[i]
        body == Transform(r.codeToEval)
        called == {k \in DOMAIN body :
                     /\ CallsCustomConsole(body[k])
                     /\ k < r.pc \/ (k = r.pc /\ r.status = "rejected")}
        LineNo(k) == Cardinality({h \in called : h <= k})
    IN (SyntaxOK(body) /\ ~TouchesGlobal(body) /\ ~Declares(body, "customConsole"))
         => /\ Len(r.logs) = Cardinality(called) + r.lateFired
            /\ \A k \in called : r.logs[LineNo(k)] = CallLine(body[k])
            /\ (Settled(r) /\ r.status = "fulfilled" /\ r.lateFired = 0)
                 => r.settled.text = JoinWith(r.logs, <<"\n">>)

\* A step of the user: an edit of the snippet or a click on Run Code.
UserStep == code' # code \/ Len(runs') > Len(runs)

\* What holds of C21: no edit and no click touches a run that was triggered
\* before (there is nothing that cancels), and a handleRunCode that returns
\* normally has stored its run's result, whatever the user did in between.
NoUserAbort ==
  [][/\ Len(runs') >= Len(runs)
     /\ UserStep => \A i \in DOMAIN runs : runs'[i] = runs[i]
     /\ \A i \in DOMAIN runs :
          (runs[i].phase = "handler" /\ runs'[i].phase = "done"
             /\ runs'[i].handler = "fulfilled")
            => output' = HandlerOutput(runs[i].settled).text
    ]_vars

\* C21: no edit and no click aborts a run triggered before, and when the
\* snippet of a run has settled, the run's handleRunCode stores its result
\* in the displayed output: it returns normally, with the result displayed.
C21_NoCancellation ==
  [][/\ Len(runs') >= Len(runs)
     /\ UserStep => \A i \in DOMAIN runs : runs'[i] = runs[i]
     /\ \A i \in DOMAIN runs :
          (runs[i].phase = "handler" /\ runs'[i].phase = "done")
            => /\ runs'[i].handler = "fulfilled"
               /\ output' = HandlerOutput(runs[i].settled).text
    ]_vars

\* The snippet's asynchronous invocation (the arrow's promise) has settled.
ArrowSettled(i) == i \in DOMAIN runs /\ runs[i].status \in {"fulfilled", "rejected"}

\* What holds of C22: once the arrow of a run has settled, evaluateCode and
\* handleRunCode eventually resume, and handleRunCode returns.
SettledLeadsToReturn ==
  \A i \in 1..MaxRuns :
    ArrowSettled(i) ~> (i \in DOMAIN runs /\ runs[i].phase = "done")

\* C22: once the arrow of a run has settled (fulfilled or rejected),
\* handleRunCode eventually stores a result string, the transcript or an
\* `Error: ...` line, as the displayed output.
C22_SettledLeadsToStored ==
  \A i \in 1..MaxRuns :
    ArrowSettled(i)
      ~> (i \in DOMAIN runs /\ runs[i].phase = "done" /\ runs[i].handler = "fulfilled")

\* C23: a run whose snippet awaits a wait that never settles stays as it is
\* in every step (nothing times it out): its arrow suspended, its
\* evaluateCode promise pending, its handleRunCode not returned.  The display
\* its click cleared changes only by another run: it is empty when there is
\* no other run, and any text it shows is one another run stored.
C23_NeverSettlingStaysRunning ==
  [][\A i \in DOMAIN runs :
       runs[i].status = "never"
         => /\ runs[i].phase = "arrow"
            /\ ~Settled(runs[i])
            /\ runs[i].handler = "pending"
            /\ runs'[i] = runs[i]
            /\ Len(runs) = 1 => output = << >>
            /\ output # << >>
                 => \E j \in DOMAIN runs :
                      /\ j # i
                      /\ runs[j].phase = "done"
                      /\ output = HandlerOutput(runs[j].settled).text
            /\ output' # output
                 => \/ Len(runs') > Len(runs)
                    \/ \E j \in DOMAIN runs :
                         j # i /\ runs[j].phase = "handler" /\ runs'[j].phase = "done"
    ]_vars

\* C23 witness: after a run that displayed a line, a run of
\* console.log("a"); await new Promise(() => {}) hangs with its line in the
\* buffer, the snippet has been edited since, and the display is cleared.
C23_Witness ==
  /\ Len(runs) = 2
  /\ runs[1].codeToEval = SnHello
  /\ runs[1].phase = "done"
  /\ runs[2].codeToEval = SnNever
  /\ runs[2].status = "never"
  /\ runs[2].logs = <<(<<"a">>)>>
  /\ ~Settled(runs[2])
  /\ runs[2].handler = "pending"
  /\ code = SnTwoLogs
  /\ output = << >>

\* The snippet is one console.error( call on one string.
OnlyErrorCall(body) ==
  /\ Len(body) = 1
  /\ body[1].op = "call"
  /\ body[1].callee = "customConsole.error("
  /\ Len(body[1].args) = 1
  /\ body[1].args[1].t = "string"

\* The snippet is one throw of an Error.
OnlyThrow(body) ==
  /\ Len(body) = 1
  /\ body[1].op = "throw"
  /\ body[1].val.t = "Error"

\* C24: a snippet that only calls console.error with the text M and a snippet
\* that only throws an exception with the message M settle with the same
\* result, the string `Error: M`.
C24_ErrorLineIndistinct ==
  \A i \in DOMAIN runs :
    \A j \in DOMAIN runs :
      LET logged == Transform(runs[i].codeToEval)
          thrown == Transform(runs[j].codeToEval)
      IN (/\ OnlyErrorCall(logged)
          /\ OnlyThrow(thrown)
          /\ thrown[1].val.s = logged[1].args[1].s
          /\ Settled(runs[i])
          /\ Settled(runs[j]))
           => /\ runs[i].settled = Fulfilled(<<"Error: ">> \o logged[1].args[1].s)
              /\ runs[j].settled = runs[i].settled

\* C24 witness: console.error("boom") has run, then throw new Error("boom"),
\* and each displayed `Error: boom`.
C24_Witness ==
  /\ Len(runs) = 2
  /\ runs[1].codeToEval = SnErrorOnly
  /\ runs[1].phase = "done"
  /\ runs[1].logs = <<(<<"Error: ", "boom">>)>>
  /\ runs[2].codeToEval = SnThrowOnly
  /\ runs[2].phase = "done"
  /\ runs[2].logs = << >>
  /\ runs[1].settled = runs[2].settled
  /\ output = <<"Error: ", "boom">>

\* The transcript of a snippet that runs to its end, from its text alone.
TranscriptOf(snippet) == JoinWith(LinesOf(Transform(snippet)), <<"\n">>)

\* C25: a click passes the snippet of that moment to evaluateCode; no step
\* changes the string a run was given, an edit changes nothing of any run,
\* and a run that ends normally stores the transcript of the snippet it was
\* given, whatever the editor holds by then.
C25_RunsSnippetAsClicked ==
  [][/\ Len(runs') > Len(runs) => runs'[Len(runs')].codeToEval = code
     /\ \A i \in DOMAIN runs : runs'[i].codeToEval = runs[i].codeToEval
     /\ code' # code => \A i \in DOMAIN runs : runs'[i] = runs[i]
     /\ \A i \in DOMAIN runs :
          (/\ runs[i].phase = "handler" /\ runs'[i].phase = "done"
           /\ runs[i].status = "fulfilled"
           /\ ~TouchesGlobal(runs[i].codeToEval)
           /\ ~Declares(runs[i].codeToEval, "customConsole"))
            => output' = TranscriptOf(runs[i].codeToEval)
    ]_vars

\* C25 witness: the delaying snippet was edited to another one while its run
\* waited on the timer (no edit can come between the timer and this state),
\* and evaluateCode has returned the transcript of the snippet as clicked.
C25_Witness ==
  /\ Len(runs) = 1
  /\ runs[1].codeToEval = SnDelay
  /\ runs[1].phase = "handler"
  /\ runs[1].settled = Fulfilled(<<"a", "\n", "b">>)
  /\ code = SnTwoLogs

\* What holds of C26: a hook call made by a timer callback after evaluateCode
\* returned reaches the buffer, and changes neither the returned result nor
\* the display.
LateCallsStayOut ==
  [][\A i \in DOMAIN runs :
       /\ (Settled(runs[i]) /\ runs'[i].logs # runs[i].logs)
            => /\ output' = output
               /\ runs'[i].settled = runs[i].settled
               /\ runs'[i].handler = runs[i].handler
       /\ (runs[i].codeToEval = SnLate /\ Settled(runs[i]))
            => runs[i].settled = Fulfilled(<<"now">>)
    ]_vars

\* The late line is in the buffer of a finished run whose display is `now`.
LateLineInBuffer ==
  /\ Len(runs) = 1
  /\ runs[1].codeToEval = SnLate
  /\ runs[1].phase = "done"
  /\ runs[1].logs = <<(<<"now">>), (<<"late">>)>>
  /\ output = <<"now">>

\* C26: a hook call made after evaluateCode's promise settled changes neither
\* the result nor the display, and once a run's result has been stored, the
\* display changes only by a later click on Run Code: in the click's own
\* step, or when the run of a click later than every stored run stores.
C26_OnlyClickChangesOutput ==
  [][/\ \A i \in DOMAIN runs :
          (Settled(runs[i]) /\ runs'[i].logs # runs[i].logs)
            => /\ output' = output
               /\ runs'[i].settled = runs[i].settled
     /\ (output' # output /\ Len(runs') = Len(runs))
          => \E j \in DOMAIN runs :
               /\ runs[j].phase = "handler" /\ runs'[j].phase = "done"
               /\ \A i \in DOMAIN runs :
                    (runs[i].phase = "done" /\ runs[i].handler = "fulfilled") => i < j
    ]_vars

\* C27: an edit changes the stored snippet and leaves the display as it is;
\* a step that triggers a run or moves one on (settling included) leaves the
\* stored snippet as it is.
C27_FrameOfCodeAndOutput ==
  [][/\ code' # code => output' = output
     /\ output' # output => code' = code
     /\ runs' # runs => code' = code
    ]_vars

\* C27 witness: a run displayed its two lines with the snippet it was given
\* still in the editor, and an edit after it left them displayed.
C27_Witness ==
  /\ Len(runs) = 1
  /\ runs[1].codeToEval = SnTwoLogs
  /\ runs[1].phase = "done"
  /\ code = SnEmpty
  /\ output = <<"1", "\n", "a", " ", "b">>

\* C28: when the snippet throws a value that is not null or undefined and
\* has no message property (a string), evaluateCode resolves to
\* `Error: undefined`: the thrown text is not in the result.
C28_ThrowWithoutMessage ==
  \A i \in DOMAIN runs :
    (/\ runs[i].status = "rejected"
     /\ runs[i].thrown.t \in {"string", "number", "boolean", "array"}
     /\ Settled(runs[i]))
      => /\ runs[i].settled = Fulfilled(<<"Error: ", "undefined">>)
         /\ \A c \in DOMAIN runs[i].settled.text :
              \A d \in DOMAIN runs[i].thrown.s : runs[i].settled.text[c] # runs[i].thrown.s[d]

\* C28 witness: throw "boom" has run and `Error: undefined` is displayed.
C28_Witness ==
  \E i \in DOMAIN runs :
    /\ runs[i].codeToEval = SnThrowString
    /\ runs[i].thrown = Str(Boom)
    /\ runs[i].phase = "done"
    /\ output = <<"Error: ", "undefined">>

\* Calls of console methods other than log and error.
OtherConsoleCalls == {"console.warn(", "console.info("}

\* C29: a call of another console method is left as written by the rewrite,
\* the arrow does not stop at it, and it adds no line: the buffer and the
\* result hold the lines of the log and error calls only.
C29_OtherMethodsNotRedirected ==
  \A i \in DOMAIN runs :
    LET r == runs[i]
        src == r.codeToEval
        body == Transform(src)
        others == {k \in DOMAIN src : src[k].op = "call" /\ src[k].callee \in OtherConsoleCalls}
    IN others # {}
         => /\ \A k \in others :
                 /\ body[k].callee = src[k].callee
                 /\ ~IsHookCall(body[k])
                 /\ ~(r.pc = k /\ r.status = "rejected")
            /\ (SyntaxOK(body) /\ ~TouchesGlobal(body) /\ ~Declares(body, "customConsole"))
                 => /\ r.logs = LinesOf(SubSeq(body, 1, r.pc - 1)) \o LateLines(body, r.lateFired)
                    /\ Len(r.logs) <= Cardinality(DOMAIN body \ others)
                    /\ (Settled(r) /\ r.status = "fulfilled")
                         => r.settled = Fulfilled(JoinWith(LinesOf(body), <<"\n">>))

\* C29 witness: console.error("bad", [1, 2], null); console.warn("w");
\* console.log("after") has run to its end past the warn call, with two
\* lines in its buffer and no line `w` displayed.
C29_Witness ==
  \E i \in DOMAIN runs :
    /\ runs[i].codeToEval = SnError
    /\ runs[i].status = "fulfilled"
    /\ runs[i].phase = "done"
    /\ Len(runs[i].logs) = 2
    /\ output = <<"Error: ", "bad", " ", "[", "1", ",", "2", "]", " ", "null", "\n", "after">>

====
